---- MODULE Spec2Model ----
(***************************************************************************)
(* Child-process supervision in the AICamera scripts.                      *)
(*                                                                         *)
(* Spec     : AIVisionGUI of AIvisionGUI.py: the Tk event thread, the      *)
(*            camera worker threads, the QR Reader / Model AI drain        *)
(*            threads, the callbacks queued with root.after and the child  *)
(*            processes.  The camera slot of modelAIvisionProgram.py is    *)
(*            the same code with the other two slots left out.             *)
(* SpecIMX  : class IMX500Camera of AI_Camera_Demo1.py, its two methods    *)
(*            called in any order by a client.                             *)
(* SpecModelAI : the GUI with only its Model AI button pressed.            *)
(* SpecOutput : the GUI with only its QR Reader button pressed, children   *)
(*            that write lines, and a record of what print() delivers.     *)
(* SpecConsole : the same with the AI Vision button as well.               *)
(* SpecPrograms : either program, one per run.                             *)
(*                                                                         *)
(* A handler of the event thread runs without interruption by another      *)
(* handler; it is cut only where it blocks in Popen.wait(timeout=2), and   *)
(* `ui` holds the calls that remain to be made once the wait has returned. *)
(* Threads take one step per shared read or write of self.*.               *)
(***************************************************************************)
EXTENDS Integers, Sequences, FiniteSets, TLC

\* Bounds of the model.
MaxProcs   == 2      \* child processes spawned by the GUI in one run of Spec
MaxModelAI == 3      \* ... and in one run of SpecModelAI
MaxWorkers == 2      \* camera worker threads started in one run
MaxIMX     == 3      \* child processes spawned by one IMX500Camera
MaxOutProcs == 2     \* child processes spawned in one run of SpecOutput
MaxConsoleProcs == 1 \* child processes spawned in one run of SpecConsole
MaxLines   == 1      \* lines one child writes in a run of SpecOutput
MaxOut     == 4      \* length of `out` in a run that keeps it
MaxTFLWorkers == 3   \* worker threads started in one run of the TFLite GUI
MaxSigints == 2      \* SIGINTs delivered to one run of a script
MaxCodes   == 2      \* QR codes decoded in one frame
MaxAfter   == 2      \* callbacks of the QR reader queued and not yet run
MaxOpened  == 3      \* length of `opened` in a run that keeps it
StartTime  == 6      \* time.time() when the QR reader is constructed
MaxTime    == 12     \* ... and when the model stops the clock

None == 0            \* Python's None for a process handle; handles are 1..Len(procs)

Slots == {"camera", "qr", "model"}

VARIABLES
    \* AIVisionGUI fields (AIvisionGUI.py:34-37) and widget texts
    process, camera_running, qr_reader_process, model_ai_process,
    start_button, qr_button, model_ai_button, status_label,
    \* the world around them
    procs,      \* every child spawned so far, in spawn order
    workers,    \* camera worker threads (_run_camera_thread) still running
    drains,     \* drain threads (_read_model_ai_output / _read_qr_reader_output)
                \* still running
    after,      \* callbacks queued by root.after(0, ...) and not yet run, per slot
    started,    \* camera worker threads started so far
    ui,         \* what the handler in progress still has to do; << >> when idle
    closed,     \* root.destroy() has been called
    exited,     \* the interpreter has gone, and its daemon threads with it
    cap,        \* children the run may spawn (a bound of the model, set by Init)
    lines,      \* lines a child may write (a bound of the model, set by Init)
    rec,        \* whether the run keeps `out` (set by Init)
    qr_script,  \* whether the file at qr_reader_path exists
    stdout,     \* sys.stdout: "orig" or "console"
    out,        \* what print() has written of the children's lines and of
                \* their exit and launch-error notifications, in order
    \* IMX500Camera (AI_Camera_Demo1.py)
    imx_process, imx_procs, imx_pc,
    \* AIVisionGUI of AIvisionProgram.py, the TFLite GUI
    tfl_camera_running, tfl_model_path, tfl_interpreter,
    tfl_start_button, tfl_status_label,
    tfl_workers,   \* _run_camera_thread threads still running
    tfl_started,   \* ... and started so far
    tfl_after,     \* _camera_stopped callbacks queued and not yet run
    tfl_stdout,    \* sys.stdout of that program
    tfl_closed,    \* root.destroy() has been called
    \* the script of AI_Camera_Demo1.py (__main__ and signal_handler)
    demo_stack,    \* the calls in progress in the main thread, __main__ first;
                   \* << >> when the script has exited
    demo_sigints,  \* SIGINTs delivered so far
    \* the script of camera_pose_detection.py
    pose_stack,    \* the calls in progress in its main thread; one frame
                   \* "exit" when the script has exited
    pose_procs,    \* the rpicam-hello child, once spawned
    pose_handler,  \* signal_handler has been installed for SIGINT
    pose_sigints,  \* SIGINTs delivered so far
    \* QRCodeReaderGUI of QRReader.py
    running, last_url, last_detection_time, status_var, url_var, open_button,
    reader_after,  \* the button states queued with root.after(0, ...), in order
    reader_thread, \* the capture thread: where it is, and the decoded
                   \* payloads of the frame it has still to go through
    reader_ui,     \* the main thread: "init" before start(), "mainloop",
                   \* then the stages of on_close
    reader_now,    \* time.time(), in seconds
    handed,        \* the argument of the latest call of force_open_url
    opened,        \* the calls of force_open_url made by
                   \* _process_current_frame, with their times
    reader_rec     \* whether the run keeps `opened` (set by Init)

fields  == <<process, camera_running, qr_reader_process, model_ai_process>>
widgets == <<start_button, qr_button, model_ai_button, status_label>>
env     == <<cap, lines, rec, qr_script>>
guiVars == <<fields, widgets, procs, workers, drains, after, started, ui,
             closed, exited, stdout, out, env>>
imxVars == <<imx_process, imx_procs, imx_pc>>
tflVars == <<tfl_camera_running, tfl_model_path, tfl_interpreter,
             tfl_start_button, tfl_status_label, tfl_workers, tfl_started,
             tfl_after, tfl_stdout, tfl_closed>>
\* The programs beside AIvisionGUI.py and IMX500Camera.
demoVars == <<demo_stack, demo_sigints>>
poseVars == <<pose_stack, pose_procs, pose_handler, pose_sigints>>
readerVars == <<running, last_url, last_detection_time, status_var, url_var,
                open_button, reader_after, reader_thread, reader_ui,
                reader_now, handed, opened, reader_rec>>
scripts == <<tflVars, demoVars, poseVars, readerVars>>
vars    == <<guiVars, imxVars, scripts>>

-----------------------------------------------------------------------------
\* Child processes.  code is what Popen.poll() returns: "None" while alive.

\* w: lines written to the stdout pipe, r: lines taken from it by readline(),
\* err: a readline() on the pipe has raised, sig: a stop has been called on
\* the child (both noted by the runs that keep `out`).
NewProc(slot) ==
    [slot |-> slot, code |-> "None", term |-> FALSE, w |-> 0, r |-> 0,
     err |-> FALSE, sig |-> FALSE]

\* The child ends with exit status c; a signal still pending is moot.
Ended(ps, p, c) == [ps EXCEPT ![p].code = c, ![p].term = FALSE]

Alive(ps, p) == ps[p].code = "None"

\* Popen.terminate(): SIGTERM, which does nothing to a child that has ended.
Terminate(ps, p) ==
    IF Alive(ps, p) THEN [ps EXCEPT ![p].term = TRUE] ELSE ps

\* Popen.kill(): SIGKILL, which no child survives.
Kill(ps, p) ==
    IF Alive(ps, p) THEN Ended(ps, p, "-9") ELSE ps

\* Popen.poll()
Poll(ps, p) == ps[p].code


-----------------------------------------------------------------------------
\* The GUI state as one value, so that a handler's calls compose.

State ==
    [process |-> process, camera_running |-> camera_running,
     qr_reader_process |-> qr_reader_process,
     model_ai_process |-> model_ai_process,
     start_button |-> start_button, qr_button |-> qr_button,
     model_ai_button |-> model_ai_button, status_label |-> status_label,
     procs |-> procs, workers |-> workers, drains |-> drains,
     started |-> started, ui |-> ui, closed |-> closed, cap |-> cap,
     stdout |-> stdout, out |-> out, rec |-> rec]

Commit(st) ==
    /\ process' = st.process
    /\ camera_running' = st.camera_running
    /\ qr_reader_process' = st.qr_reader_process
    /\ model_ai_process' = st.model_ai_process
    /\ start_button' = st.start_button
    /\ qr_button' = st.qr_button
    /\ model_ai_button' = st.model_ai_button
    /\ status_label' = st.status_label
    /\ procs' = st.procs
    /\ workers' = st.workers
    /\ drains' = st.drains
    /\ started' = st.started
    /\ ui' = st.ui
    /\ closed' = st.closed
    /\ out' = st.out

\* print(...) of a child's line or of a notification: RedirectText.write
\* (AIvisionGUI.py:19-24) when sys.stdout is the redirect, the terminal
\* otherwise.  p is the child the text is about, n the line or the exit code.
Written(kind, slot, p, n, to) ==
    [kind |-> kind, slot |-> slot, p |-> p, n |-> n, to |-> to]

write(st, kind, slot, p, n) ==
    IF st.rec
    THEN [st EXCEPT !.out = Append(@, Written(kind, slot, p, n, st.stdout))]
    ELSE st

\* stop_camera with its last statements moved out of the if.
stop_camera_unguarded(st) ==
    IF st.process # None /\ st.camera_running
    THEN [st EXCEPT !.procs = Terminate(@, st.process),
                    !.process = None,
                    !.camera_running = FALSE,
                    !.start_button = "AI Vision",
                    !.status_label = "Status: Stopped"]
    ELSE [st EXCEPT !.start_button = "AI Vision",
                    !.status_label = "Status: Stopped"]

\* stop_camera (AIvisionGUI.py:374-382)
stop_camera(st) ==
    IF st.process # None /\ st.camera_running
    THEN [st EXCEPT !.procs = Terminate(@, st.process),
                    !.process = None,
                    !.camera_running = FALSE,
                    !.start_button = "AI Vision",
                    !.status_label = "Status: Stopped"]
    ELSE st

\* stop_model_ai up to its wait (AIvisionGUI.py:190-195)
stop_model_ai_begin(st) ==
    [st EXCEPT !.procs = [Terminate(@, st.model_ai_process)
                             EXCEPT ![st.model_ai_process].sig = st.rec]]

\* stop_model_ai from the return of wait(timeout=2) (AIvisionGUI.py:195-201):
\* a child still alive has let the timeout expire and is killed.
stop_model_ai_end(st) ==
    [st EXCEPT !.procs = Kill(@, st.model_ai_process),
               !.model_ai_process = None,
               !.model_ai_button = "Model AI",
               !.status_label = "Status: Model AI Vision Stopped"]

\* stop_qr_reader up to its wait (AIvisionGUI.py:289-294)
stop_qr_reader_begin(st) ==
    [st EXCEPT !.procs = [Terminate(@, st.qr_reader_process)
                             EXCEPT ![st.qr_reader_process].sig = st.rec]]

\* stop_qr_reader_end without its qr_button.configure.
stop_qr_reader_end_unlabelled(st) ==
    [st EXCEPT !.procs = Kill(@, st.qr_reader_process),
               !.qr_reader_process = None,
               !.status_label = "Status: QR Reader Stopped"]

\* stop_qr_reader from the return of wait(timeout=2) (AIvisionGUI.py:294-300)
stop_qr_reader_end(st) ==
    [st EXCEPT !.procs = Kill(@, st.qr_reader_process),
               !.qr_reader_process = None,
               !.qr_button = "QR Reader",
               !.status_label = "Status: QR Reader Stopped"]

\* start_model_ai from "Update status" on (AIvisionGUI.py:123-160).  ok: Popen
\* succeeded.
launch_model_ai(st, ok) ==
    IF ok /\ Len(st.procs) < st.cap
    THEN LET p == Len(st.procs) + 1 IN
         [st EXCEPT !.procs = Append(@, NewProc("model")),
                    !.model_ai_process = p,
                    !.drains = @ \cup {[slot |-> "model", own |-> p,
                                       pc |-> "loop", target |-> None]},
                    !.model_ai_button = "Stop Model AI",
                    !.status_label = "Status: Model AI Vision Running"]
    ELSE [write(st, "error", "model", None, "OSError")
             EXCEPT !.model_ai_process = None,
                    !.model_ai_button = "Model AI",
                    !.status_label = "Status: Error"]

\* start_qr_reader from "Update status" on (AIvisionGUI.py:222-259).  Popen
\* executes sys.executable; qr_reader_path is an argument of it, so that a
\* missing file is met by the child and not by Popen.
launch_qr_reader(st, ok) ==
    IF ok /\ Len(st.procs) < st.cap
    THEN LET p == Len(st.procs) + 1 IN
         [st EXCEPT !.procs = Append(@, NewProc("qr")),
                    !.qr_reader_process = p,
                    !.drains = @ \cup {[slot |-> "qr", own |-> p,
                                       pc |-> "loop", target |-> None]},
                    !.qr_button = "Stop QR Reader",
                    !.status_label = "Status: QR Reader Running"]
    ELSE [write(st, "error", "qr", None, "OSError")
             EXCEPT !.qr_reader_process = None,
                    !.qr_button = "QR Reader",
                    !.status_label = "Status: Error"]

\* start_camera from "self.camera_running = True" on (AIvisionGUI.py:321-333)
launch_camera(st) ==
    [st EXCEPT !.camera_running = TRUE,
               !.start_button = "Stop AI Vision",
               !.status_label = "Status: Running",
               !.workers = @ \cup {[id |-> st.started + 1, pc |-> "start",
                                         target |-> None]},
               !.started = @ + 1]

\* The calls a handler makes, in order, until one blocks in wait() or none is
\* left.  A stop of the QR Reader or of Model AI does nothing on a None handle.
RECURSIVE Run(_, _, _)
Run(st, k, ok) ==
    IF k = << >> THEN [st EXCEPT !.ui = << >>]
    ELSE LET h == Head(k)
             r == Tail(k)
         IN CASE h = "stop_camera_if_running" ->
                   Run(IF st.camera_running THEN stop_camera(st) ELSE st, r, ok)
              [] h = "stop_camera" -> Run(stop_camera(st), r, ok)
              [] h = "stop_qr_reader" ->
                   IF st.qr_reader_process # None
                   THEN [stop_qr_reader_begin(st) EXCEPT !.ui = <<"wait_qr_reader">> \o r]
                   ELSE Run(st, r, ok)
              [] h = "stop_model_ai" ->
                   IF st.model_ai_process # None
                   THEN [stop_model_ai_begin(st) EXCEPT !.ui = <<"wait_model_ai">> \o r]
                   ELSE Run(st, r, ok)
              [] h = "wait_qr_reader" -> Run(stop_qr_reader_end(st), r, ok)
              [] h = "wait_model_ai" -> Run(stop_model_ai_end(st), r, ok)
              [] h = "launch_model_ai" -> Run(launch_model_ai(st, ok), r, ok)
              [] h = "launch_qr_reader" -> Run(launch_qr_reader(st, ok), r, ok)
              [] h = "launch_camera" -> Run(launch_camera(st), r, ok)
              [] h = "destroy" -> [st EXCEPT !.closed = TRUE, !.ui = << >>]

\* start_model_ai (AIvisionGUI.py:111-160)
start_model_ai ==
    IF model_ai_process # None THEN << >>
    ELSE <<"stop_camera_if_running", "stop_qr_reader", "launch_model_ai">>

\* stop_model_ai (AIvisionGUI.py:188-201)
stop_model_ai == <<"stop_model_ai">>

\* toggle_model_ai asking poll() whether the child it holds is still alive.
toggle_model_ai_polling ==
    IF model_ai_process = None \/ ~Alive(procs, model_ai_process)
    THEN start_model_ai ELSE stop_model_ai

\* toggle_model_ai (AIvisionGUI.py:104-109)
toggle_model_ai ==
    IF model_ai_process = None THEN start_model_ai ELSE stop_model_ai

\* start_qr_reader (AIvisionGUI.py:210-259)
start_qr_reader ==
    IF qr_reader_process # None THEN << >>
    ELSE <<"stop_camera_if_running", "stop_model_ai", "launch_qr_reader">>

\* stop_qr_reader (AIvisionGUI.py:287-300)
stop_qr_reader == <<"stop_qr_reader">>

\* toggle_qr_reader (AIvisionGUI.py:203-208)
toggle_qr_reader ==
    IF qr_reader_process = None THEN start_qr_reader ELSE stop_qr_reader

\* start_camera (AIvisionGUI.py:309-333)
start_camera ==
    IF camera_running THEN << >>
    ELSE <<"stop_qr_reader", "stop_model_ai", "launch_camera">>

\* toggle_camera (AIvisionGUI.py:302-307)
toggle_camera ==
    IF ~camera_running THEN start_camera ELSE <<"stop_camera">>

\* close_application (AIvisionGUI.py:384-395)
close_application ==
    <<"stop_camera_if_running", "stop_qr_reader", "stop_model_ai", "destroy">>

-----------------------------------------------------------------------------------------------------------------------------------------------------
\* The event thread.

UIIdle == ui = << >> /\ ~closed

\* A handler that would start a camera worker needs room for one.
Room(k) ==
    \A i \in 1..Len(k) : k[i] = "launch_camera" => started < MaxWorkers

\* A run that keeps `out` has room in it for one more entry.
OutRoom == rec => Len(out) < MaxOut

Handle(k) ==
    /\ UIIdle
    /\ Room(k)
    /\ OutRoom
    /\ \E ok \in BOOLEAN : Commit(Run(State, k, ok))
    /\ UNCHANGED <<after, exited, stdout, env, imxVars, scripts>>

ToggleModelAI == Handle(toggle_model_ai)
ToggleQRReader == Handle(toggle_qr_reader)
ToggleCamera == Handle(toggle_camera)
StartModelAI == Handle(start_model_ai)
StartQRReader == Handle(start_qr_reader)
StartCamera == Handle(start_camera)
StopModelAI == Handle(stop_model_ai)
StopQRReader == Handle(stop_qr_reader)
StopCamera == Handle(<<"stop_camera">>)
CloseApplication == Handle(close_application)

\* wait(timeout=2) returns, by the child's end or by the timeout, and the
\* handler goes on.
WaitReturns ==
    /\ ui # << >>
    /\ ~closed
    /\ OutRoom
    /\ \E ok \in BOOLEAN : Commit(Run(State, ui, ok))
    /\ UNCHANGED <<after, exited, stdout, env, imxVars, scripts>>

\* _model_ai_stopped (AIvisionGUI.py:180-186)
model_ai_stopped(st) ==
    LET returncode == IF st.model_ai_process # None
                      THEN Poll(st.procs, st.model_ai_process) ELSE "None"
    IN [write(st, "exit", "model", st.model_ai_process, returncode)
           EXCEPT !.model_ai_process = None,
                  !.model_ai_button = "Model AI",
                  !.status_label = "Status: Model AI Vision Exited (code: "
                                      \o returncode \o ")"]

\* _qr_reader_stopped (AIvisionGUI.py:279-285)
qr_reader_stopped(st) ==
    LET returncode == IF st.qr_reader_process # None
                      THEN Poll(st.procs, st.qr_reader_process) ELSE "None"
    IN [write(st, "exit", "qr", st.qr_reader_process, returncode)
           EXCEPT !.qr_reader_process = None,
                  !.qr_button = "QR Reader",
                  !.status_label = "Status: QR Reader Exited (code: "
                                      \o returncode \o ")"]

\* _camera_stopped (AIvisionGUI.py:367-372)
camera_stopped(st) ==
    [st EXCEPT !.camera_running = FALSE,
               !.start_button = "AI Vision",
               !.status_label = "Status: Ready",
               !.process = None]

Callback(slot, st) ==
    CASE slot = "model" -> model_ai_stopped(st)
      [] slot = "qr" -> qr_reader_stopped(st)
      [] slot = "camera" -> camera_stopped(st)

\* The event loop runs a callback queued with root.after(0, ...).
RunCallback ==
    /\ UIIdle
    /\ OutRoom
    /\ \E slot \in Slots :
          /\ after[slot] > 0
          /\ after' = [after EXCEPT ![slot] = @ - 1]
          /\ Commit(Callback(slot, State))
    /\ UNCHANGED <<exited, stdout, env, imxVars, scripts>>

\* After root.destroy() mainloop returns and the script ends; the daemon
\* threads run on until the interpreter has gone.
InterpreterExit ==
    /\ closed
    /\ ~exited
    /\ exited' = TRUE
    /\ workers' = {}
    /\ drains' = {}
    /\ UNCHANGED <<fields, widgets, procs, after, started, ui, closed, stdout,
                   out, env, imxVars, scripts>>

-----------------------------------------------------------------------------
\* Camera worker thread: _run_camera_thread (AIvisionGUI.py:335-365).

\* root.after(0, cb) from a thread
Schedule(slot) == after' = [after EXCEPT ![slot] = @ + 1]

WorkerAt(w, pc, target) ==
    workers' = (workers \ {w}) \cup {[w EXCEPT !.pc = pc, !.target = target]}

\* sys.stdout = self.stdout_redirect (line 339)
WorkerRedirect(w) ==
    /\ w.pc = "start"
    /\ stdout' = "console"
    /\ WorkerAt(w, "popen", None)
    /\ UNCHANGED <<fields, widgets, procs, drains, after, started, ui, closed,
                   exited, out, env, imxVars, scripts>>

\* self.process = subprocess.Popen(cmd) (line 354); a Popen that raises goes
\* to the except clause (lines 360-362).
WorkerPopen(w) ==
    /\ w.pc = "popen"
    /\ \E ok \in BOOLEAN :
          IF ok /\ Len(procs) < cap
          THEN /\ procs' = Append(procs, NewProc("camera"))
               /\ process' = Len(procs) + 1
               /\ WorkerAt(w, "call_wait", None)
               /\ after' = after
          ELSE /\ Schedule("camera")
               /\ WorkerAt(w, "finally", None)
               /\ UNCHANGED <<procs, process>>
    /\ UNCHANGED <<camera_running, qr_reader_process, model_ai_process,
                   widgets, drains, started, ui, closed, exited, stdout, out,
                   env, imxVars, scripts>>

\* self.process.wait() is called (line 355): on None it raises AttributeError
\* and the except clause schedules _camera_stopped.
WorkerCallWait(w) ==
    /\ w.pc = "call_wait"
    /\ IF process = None
       THEN /\ Schedule("camera")
            /\ WorkerAt(w, "finally", None)
       ELSE /\ WorkerAt(w, "waiting", process)
            /\ after' = after
    /\ UNCHANGED <<fields, widgets, procs, drains, started, ui, closed, exited,
                   stdout, out, env, imxVars, scripts>>

\* wait() returns once the child has ended; root.after(0, ...) (line 358)
WorkerWaitReturns(w) ==
    /\ w.pc = "waiting"
    /\ ~Alive(procs, w.target)
    /\ Schedule("camera")
    /\ WorkerAt(w, "finally", None)
    /\ UNCHANGED <<fields, widgets, procs, drains, started, ui, closed, exited,
                   stdout, out, env, imxVars, scripts>>

\* finally: sys.stdout = sys.__stdout__ (line 365), and the thread ends
WorkerFinally(w) ==
    /\ w.pc = "finally"
    /\ stdout' = "orig"
    /\ workers' = workers \ {w}
    /\ UNCHANGED <<fields, widgets, procs, drains, after, started, ui, closed,
                   exited, out, env, imxVars, scripts>>

Worker ==
    \E w \in workers :
       \/ WorkerRedirect(w)
       \/ WorkerPopen(w)
       \/ WorkerCallWait(w)
       \/ WorkerWaitReturns(w)
       \/ WorkerFinally(w)

-----------------------------------------------------------------------------
\* Drain threads: _read_model_ai_output (AIvisionGUI.py:162-178) and
\* _read_qr_reader_output (AIvisionGUI.py:261-277), the same text on another
\* field.

HandleOf(slot) ==
    CASE slot = "model" -> model_ai_process
      [] slot = "qr" -> qr_reader_process
      [] slot = "camera" -> process

DrainAt(d, pc, target) ==
    drains' = (drains \ {d}) \cup {[d EXCEPT !.pc = pc, !.target = target]}

\* "while self.X:" and "self.X.stdout.readline()" is called (lines 164-167);
\* on None the loop is left (by the test, or by AttributeError and break).
DrainLoop(d) ==
    /\ d.pc = "loop"
    /\ LET h == HandleOf(d.slot) IN
         IF h = None THEN DrainAt(d, "end", None) ELSE DrainAt(d, "read", h)
    /\ UNCHANGED <<fields, widgets, procs, workers, after, started, ui, closed,
                   exited, stdout, out, env, imxVars, scripts>>

\* readline() returns the next line in the pipe, written by a child that may
\* have ended since; it is printed with the task's prefix (lines 171-172)
DrainLine(d) ==
    /\ d.pc = "read"
    /\ procs[d.target].r < procs[d.target].w
    /\ OutRoom
    /\ procs' = [procs EXCEPT ![d.target].r = @ + 1]
    /\ out' = IF rec
              THEN Append(out, Written("line", d.slot, d.target,
                                       procs[d.target].r + 1, stdout))
              ELSE out
    /\ DrainAt(d, "loop", None)
    /\ UNCHANGED <<fields, widgets, workers, after, started, ui, closed,
                   exited, stdout, env, imxVars, scripts>>

\* readline() returns '' at the end of the child's output, the pipe being
\* empty and the child gone, and self.X.poll() is asked of whatever self.X is
\* now (lines 168-174).
DrainEOF(d) ==
    /\ d.pc = "read"
    /\ procs[d.target].r = procs[d.target].w
    /\ ~Alive(procs, d.target)
    /\ LET h == HandleOf(d.slot) IN
         IF h = None \/ Poll(procs, h) # "None"
         THEN DrainAt(d, "end", None)
         ELSE DrainAt(d, "loop", None)
    /\ UNCHANGED <<fields, widgets, procs, workers, after, started, ui, closed,
                   exited, stdout, out, env, imxVars, scripts>>

\* readline() raises (a line that does not decode, a closed pipe): "except:
\* break" (lines 173-174)
DrainError(d) ==
    /\ d.pc = "read"
    /\ procs' = [procs EXCEPT ![d.target].err = rec]
    /\ DrainAt(d, "end", None)
    /\ UNCHANGED <<fields, widgets, workers, after, started, ui, closed,
                   exited, stdout, out, env, imxVars, scripts>>

\* "if self.X and self.X.poll() is not None: self.root.after(0, ...)"
\* (lines 176-178), and the thread ends
DrainEnd(d) ==
    /\ d.pc = "end"
    /\ LET h == HandleOf(d.slot) IN
         IF h # None /\ Poll(procs, h) # "None"
         THEN Schedule(d.slot)
         ELSE after' = after
    /\ drains' = drains \ {d}
    /\ UNCHANGED <<fields, widgets, procs, workers, started, ui, closed, exited,
                   stdout, out, env, imxVars, scripts>>

Drain ==
    \E d \in drains :
       \/ DrainLoop(d)
       \/ DrainLine(d)
       \/ DrainEOF(d)
       \/ DrainError(d)
       \/ DrainEnd(d)

-----------------------------------------------------------------------------
\* The children.

ExitCodes == {"0", "1"}

\* The exit status of python when the script it is given does not exist.
NoSuchFile == "2"

\* The exit statuses child p can end with by itself: the QR Reader child is
\* python given qr_reader_path, which ends at once when the file is missing.
OwnExitCodes(p) ==
    IF procs[p].slot = "qr" /\ ~qr_script THEN {NoSuchFile} ELSE ExitCodes

\* A child ends by itself.
ChildExits ==
    /\ \E p \in 1..Len(procs) : \E c \in OwnExitCodes(p) :
          /\ Alive(procs, p)
          /\ procs' = Ended(procs, p, c)
    /\ UNCHANGED <<fields, widgets, workers, drains, after, started, ui, closed,
                   exited, stdout, out, env, imxVars, scripts>>

\* A QR Reader or Model AI child writes a line to its stdout, a pipe.  (The
\* camera child's stdout is the GUI's own.)
ChildWrites ==
    /\ \E p \in 1..Len(procs) :
          /\ Alive(procs, p)
          /\ procs[p].slot # "camera"
          /\ procs[p].w < lines
          /\ procs' = [procs EXCEPT ![p].w = @ + 1]
    /\ UNCHANGED <<fields, widgets, workers, drains, after, started, ui, closed,
                   exited, stdout, out, env, imxVars, scripts>>

\* A child dies of the SIGTERM it was sent.  One that ignores the signal is
\* one for which this never happens.
ChildTerminated ==
    /\ \E p \in 1..Len(procs) :
          /\ Alive(procs, p)
          /\ procs[p].term
          /\ procs' = Ended(procs, p, "-15")
    /\ UNCHANGED <<fields, widgets, workers, drains, after, started, ui, closed,
                   exited, stdout, out, env, imxVars, scripts>>

-----------------------------------------------------------------------------

InitGUI ==
    /\ process = None
    /\ camera_running = FALSE
    /\ qr_reader_process = None
    /\ model_ai_process = None
    /\ start_button = "AI Vision"
    /\ qr_button = "QR Reader"
    /\ model_ai_button = "Model AI"
    /\ status_label = "Status: Ready"
    /\ procs = << >>
    /\ workers = {}
    /\ drains = {}
    /\ after = [s \in Slots |-> 0]
    /\ started = 0
    /\ ui = << >>
    /\ closed = FALSE
    /\ exited = FALSE
    /\ stdout = "orig"
    /\ out = << >>

\* IMX500Camera.__init__ (AI_Camera_Demo1.py:9-27)
InitIMX ==
    /\ imx_process = None
    /\ imx_procs = << >>
    /\ imx_pc = "idle"

\* The runs of Spec, SpecModelAI and SpecIMX are about the processes: the
\* children write nothing and `out` is not kept.
Silent == lines = 0 /\ rec = FALSE /\ qr_script = TRUE

\* AIVisionGUI.__init__ of the TFLite GUI (AIvisionProgram.py:50-119)
InitTFL ==
    /\ tfl_camera_running = FALSE
    /\ tfl_model_path = FALSE
    /\ tfl_interpreter = FALSE
    /\ tfl_start_button = "AI Vision"
    /\ tfl_status_label = "Status: Ready"
    /\ tfl_workers = {}
    /\ tfl_started = 0
    /\ tfl_after = 0
    /\ tfl_stdout = "orig"
    /\ tfl_closed = FALSE

\* AI_Camera_Demo1.py as __main__ begins, at line 68
InitDemo ==
    /\ demo_stack = <<[f |-> "main", pc |-> "signal"]>>
    /\ demo_sigints = 0

\* camera_pose_detection.py as run_camera_with_pose_detection enters its try
\* statement (line 34)
InitPose ==
    /\ pose_stack = <<[f |-> "main", pc |-> "popen"]>>
    /\ pose_procs = << >>
    /\ pose_handler = FALSE
    /\ pose_sigints = 0

\* Python's None where the model needs it among strings, which are sequences
\* of characters: a sequence that no string is.
PyNone == <<"<None>">>

\* QRCodeReaderGUI.__init__ (QRReader.py:53-118); url_var is set to the
\* string "None".
InitReader ==
    /\ running = FALSE
    /\ last_url = PyNone
    /\ last_detection_time = 0
    /\ status_var = <<"Scanner ready. Waiting for QR codes...">>
    /\ url_var = <<"N", "o", "n", "e">>
    /\ open_button = "disabled"
    /\ reader_after = << >>
    /\ reader_thread = [pc |-> "none", codes |-> << >>]
    /\ reader_ui = "init"
    /\ reader_now = StartTime
    /\ handed = PyNone
    /\ opened = << >>

\* The other programs as they are before they are run.
InitScripts == InitTFL /\ InitDemo /\ InitPose /\ InitReader /\ reader_rec = FALSE

Init == InitGUI /\ InitIMX /\ InitScripts /\ cap = MaxProcs /\ Silent

Next ==
    \/ ToggleModelAI
    \/ ToggleQRReader
    \/ ToggleCamera
    \/ StartModelAI
    \/ StartQRReader
    \/ StartCamera
    \/ StopModelAI
    \/ StopQRReader
    \/ StopCamera
    \/ CloseApplication
    \/ WaitReturns
    \/ RunCallback
    \/ InterpreterExit
    \/ Worker
    \/ Drain
    \/ ChildExits
    \/ ChildTerminated

\* AIVisionGUI under every use of its buttons and methods.
Spec == Init /\ [][Next]_vars

\* AIVisionGUI with a user who only ever presses the Model AI button, which
\* leaves room for a third child.
InitModelAI == InitGUI /\ InitIMX /\ InitScripts /\ cap = MaxModelAI /\ Silent

NextModelAI ==
    \/ ToggleModelAI
    \/ WaitReturns
    \/ RunCallback
    \/ Drain
    \/ ChildExits
    \/ ChildTerminated

SpecModelAI == InitModelAI /\ [][NextModelAI]_vars

\* AIVisionGUI with children that write, the QR Reader's script present or
\* not, and a user who presses the QR Reader and AI Vision buttons.
InitOutput ==
    /\ InitGUI
    /\ InitIMX
    /\ InitScripts
    /\ cap = MaxOutProcs
    /\ lines = MaxLines
    /\ rec = TRUE
    /\ qr_script \in BOOLEAN

NextOutput ==
    \/ ToggleQRReader
    \/ WaitReturns
    \/ RunCallback
    \/ Drain
    \/ ChildWrites
    \/ ChildExits
    \/ ChildTerminated

SpecOutput == InitOutput /\ [][NextOutput]_vars

\* AIVisionGUI with a child that writes and a user who presses the QR Reader
\* and AI Vision buttons, so that the camera worker's redirection of
\* sys.stdout meets the QR Reader's output.
InitConsole ==
    /\ InitGUI
    /\ InitIMX
    /\ InitScripts
    /\ cap = MaxConsoleProcs
    /\ lines = MaxLines
    /\ rec = TRUE
    /\ qr_script = TRUE

NextConsole ==
    \/ ToggleQRReader
    \/ ToggleCamera
    \/ WaitReturns
    \/ RunCallback
    \/ Worker
    \/ Drain
    \/ ChildWrites
    \/ ChildExits
    \/ ChildTerminated

SpecConsole == InitConsole /\ [][NextConsole]_vars

-----------------------------------------------------------------------------
\* class IMX500Camera (AI_Camera_Demo1.py:8-57), its methods called by a
\* client in any order.  ign: the child ignores SIGTERM.

NewIMXProc(ign) == [code |-> "None", term |-> FALSE, ign |-> ign]

\* IMX500Camera.start (AI_Camera_Demo1.py:29-48): self.process is assigned
\* whatever it held; a Popen that raises leaves it as it was.
IMXStart ==
    /\ imx_pc = "idle"
    /\ Len(imx_procs) < MaxIMX
    /\ \E ok \in BOOLEAN, ign \in BOOLEAN :
          IF ok
          THEN /\ imx_procs' = Append(imx_procs, NewIMXProc(ign))
               /\ imx_process' = Len(imx_procs) + 1
          ELSE UNCHANGED <<imx_procs, imx_process>>
    /\ UNCHANGED <<imx_pc, guiVars, scripts>>

\* IMX500Camera.stop up to its wait (AI_Camera_Demo1.py:50-55)
IMXStop ==
    /\ imx_pc = "idle"
    /\ IF imx_process # None
       THEN /\ imx_procs' = Terminate(imx_procs, imx_process)
            /\ imx_pc' = "wait"
       ELSE UNCHANGED <<imx_procs, imx_pc>>
    /\ UNCHANGED <<imx_process, guiVars, scripts>>

\* self.process.wait() returns, which it does when the child has ended, and
\* stop finishes (AI_Camera_Demo1.py:55-57)
IMXWaitReturns ==
    /\ imx_pc = "wait"
    /\ ~Alive(imx_procs, imx_process)
    /\ imx_process' = None
    /\ imx_pc' = "idle"
    /\ UNCHANGED <<imx_procs, guiVars, scripts>>

\* The rpicam-hello child ends by itself.
IMXChildExits ==
    /\ \E p \in 1..Len(imx_procs), c \in ExitCodes :
          /\ Alive(imx_procs, p)
          /\ imx_procs' = Ended(imx_procs, p, c)
    /\ UNCHANGED <<imx_process, imx_pc, guiVars, scripts>>

\* The child dies of the SIGTERM it was sent, unless it ignores the signal.
IMXChildTerminated ==
    /\ \E p \in 1..Len(imx_procs) :
          /\ Alive(imx_procs, p)
          /\ imx_procs[p].term
          /\ ~imx_procs[p].ign
          /\ imx_procs' = Ended(imx_procs, p, "-15")
    /\ UNCHANGED <<imx_process, imx_pc, guiVars, scripts>>

NextIMX ==
    \/ IMXStart
    \/ IMXStop
    \/ IMXWaitReturns
    \/ IMXChildExits
    \/ IMXChildTerminated

SpecIMX == Init /\ [][NextIMX]_vars

\* The two programs, one of them used in a run: the GUI while no IMX500Camera
\* has been touched, or IMX500Camera while the GUI is as it was constructed.
NextPrograms ==
    \/ Next /\ InitIMX
    \/ NextIMX /\ InitGUI

SpecPrograms == Init /\ [][NextPrograms]_vars

-----------------------------------------------------------------------------
\* AIVisionGUI of AIvisionProgram.py: the camera is read with OpenCV by a
\* worker thread, with no child process.  tfl_model_path and tfl_interpreter
\* say whether the field is set.

\* Everything but the TFLite GUI.
besideTFL == <<guiVars, imxVars, demoVars, poseVars, readerVars>>

\* select_model (AIvisionProgram.py:121-164) with a file chosen: the path is
\* kept, and the interpreter is the one loaded or, the load failing, None.
TFLSelectModel ==
    /\ ~tfl_closed
    /\ tfl_model_path' = TRUE
    /\ tfl_interpreter' \in BOOLEAN
    /\ UNCHANGED <<tfl_camera_running, tfl_start_button, tfl_status_label,
                   tfl_workers, tfl_started, tfl_after, tfl_stdout, tfl_closed,
                   besideTFL>>

\* stop_camera (AIvisionProgram.py:342-348): the flag is cleared and the
\* worker is left to notice.
tfl_stop_camera ==
    IF tfl_camera_running
    THEN /\ tfl_camera_running' = FALSE
         /\ tfl_start_button' = "AI Vision"
         /\ tfl_status_label' = "Status: Stopped"
    ELSE UNCHANGED <<tfl_camera_running, tfl_start_button, tfl_status_label>>

\* start_camera (AIvisionProgram.py:173-194)
tfl_start_camera ==
    IF tfl_camera_running \/ ~tfl_model_path
    THEN UNCHANGED <<tfl_camera_running, tfl_start_button, tfl_status_label,
                     tfl_workers, tfl_started>>
    ELSE /\ tfl_started < MaxTFLWorkers
         /\ tfl_camera_running' = TRUE
         /\ tfl_start_button' = "Stop AI Vision"
         /\ tfl_status_label' = "Status: Running"
         /\ tfl_workers' = tfl_workers \cup {[id |-> tfl_started + 1, pc |-> "start"]}
         /\ tfl_started' = tfl_started + 1

\* toggle_camera (AIvisionProgram.py:166-171)
TFLToggleCamera ==
    /\ ~tfl_closed
    /\ IF ~tfl_camera_running
       THEN tfl_start_camera
       ELSE tfl_stop_camera /\ UNCHANGED <<tfl_workers, tfl_started>>
    /\ UNCHANGED <<tfl_model_path, tfl_interpreter, tfl_after, tfl_stdout,
                   tfl_closed, besideTFL>>

\* _camera_stopped (AIvisionProgram.py:335-340), run by the event loop
TFLRunCallback ==
    /\ ~tfl_closed
    /\ tfl_after > 0
    /\ tfl_after' = tfl_after - 1
    /\ tfl_camera_running' = FALSE
    /\ tfl_start_button' = "AI Vision"
    /\ tfl_status_label' = "Status: Ready"
    /\ UNCHANGED <<tfl_model_path, tfl_interpreter, tfl_workers, tfl_started,
                   tfl_stdout, tfl_closed, besideTFL>>

\* close_application (AIvisionProgram.py:350-354)
TFLCloseApplication ==
    /\ ~tfl_closed
    /\ tfl_stop_camera
    /\ tfl_closed' = TRUE
    /\ UNCHANGED <<tfl_model_path, tfl_interpreter, tfl_workers, tfl_started,
                   tfl_after, tfl_stdout, besideTFL>>

\* mainloop has returned and the script ends, its daemon threads with it.
TFLInterpreterExit ==
    /\ tfl_closed
    /\ tfl_workers # {}
    /\ tfl_workers' = {}
    /\ UNCHANGED <<tfl_camera_running, tfl_model_path, tfl_interpreter,
                   tfl_start_button, tfl_status_label, tfl_started, tfl_after,
                   tfl_stdout, tfl_closed, besideTFL>>

\* _run_camera_thread (AIvisionProgram.py:196-270)

TFLWorkerAt(w, pc) ==
    tfl_workers' = (tfl_workers \ {w}) \cup {[w EXCEPT !.pc = pc]}

\* sys.stdout = self.stdout_redirect (line 200)
TFLWorkerRedirect(w) ==
    /\ w.pc = "start"
    /\ tfl_stdout' = "console"
    /\ TFLWorkerAt(w, "open")
    /\ UNCHANGED <<tfl_camera_running, tfl_model_path, tfl_interpreter,
                   tfl_start_button, tfl_status_label, tfl_started, tfl_after,
                   tfl_closed, besideTFL>>

\* cv2.VideoCapture(0) (lines 205-220): a camera that does not open makes the
\* thread return, an interpreter that is None makes get_input_details raise
\* and the except clause schedule _camera_stopped (lines 263-267).
TFLWorkerOpen(w) ==
    /\ w.pc = "open"
    /\ \E isOpened \in BOOLEAN :
          IF ~isOpened
          THEN TFLWorkerAt(w, "finally") /\ tfl_after' = tfl_after
          ELSE IF ~tfl_interpreter
               THEN TFLWorkerAt(w, "finally") /\ tfl_after' = tfl_after + 1
               ELSE TFLWorkerAt(w, "test") /\ tfl_after' = tfl_after
    /\ UNCHANGED <<tfl_camera_running, tfl_model_path, tfl_interpreter,
                   tfl_start_button, tfl_status_label, tfl_started, tfl_stdout,
                   tfl_closed, besideTFL>>

\* "while self.camera_running:" (line 222)
TFLWorkerTest(w) ==
    /\ w.pc = "test"
    /\ TFLWorkerAt(w, IF tfl_camera_running THEN "loop" ELSE "release")
    /\ UNCHANGED <<tfl_camera_running, tfl_model_path, tfl_interpreter,
                   tfl_start_button, tfl_status_label, tfl_started, tfl_after,
                   tfl_stdout, tfl_closed, besideTFL>>

\* The body of the loop (lines 223-254): a frame is read and processed, or
\* the read fails or 'q' is pressed and the loop is left by break, or a call
\* raises and the except clause schedules _camera_stopped.
TFLWorkerLoop(w) ==
    /\ w.pc = "loop"
    /\ \E how \in {"frame", "break", "raise"} :
          CASE how = "frame" -> TFLWorkerAt(w, "test") /\ tfl_after' = tfl_after
            [] how = "break" -> TFLWorkerAt(w, "release") /\ tfl_after' = tfl_after
            [] how = "raise" -> TFLWorkerAt(w, "finally") /\ tfl_after' = tfl_after + 1
    /\ UNCHANGED <<tfl_camera_running, tfl_model_path, tfl_interpreter,
                   tfl_start_button, tfl_status_label, tfl_started, tfl_stdout,
                   tfl_closed, besideTFL>>

\* cap.release(), cv2.destroyAllWindows() and root.after(0, _camera_stopped)
\* (lines 257-261)
TFLWorkerRelease(w) ==
    /\ w.pc = "release"
    /\ tfl_after' = tfl_after + 1
    /\ TFLWorkerAt(w, "finally")
    /\ UNCHANGED <<tfl_camera_running, tfl_model_path, tfl_interpreter,
                   tfl_start_button, tfl_status_label, tfl_started, tfl_stdout,
                   tfl_closed, besideTFL>>

\* finally: sys.stdout = sys.__stdout__ (line 270), and the thread ends
TFLWorkerFinally(w) ==
    /\ w.pc = "finally"
    /\ tfl_stdout' = "orig"
    /\ tfl_workers' = tfl_workers \ {w}
    /\ UNCHANGED <<tfl_camera_running, tfl_model_path, tfl_interpreter,
                   tfl_start_button, tfl_status_label, tfl_started, tfl_after,
                   tfl_closed, besideTFL>>

TFLWorker ==
    \E w \in tfl_workers :
       \/ TFLWorkerRedirect(w)
       \/ TFLWorkerOpen(w)
       \/ TFLWorkerTest(w)
       \/ TFLWorkerLoop(w)
       \/ TFLWorkerRelease(w)
       \/ TFLWorkerFinally(w)

NextTFL ==
    \/ TFLSelectModel
    \/ TFLToggleCamera
    \/ TFLRunCallback
    \/ TFLCloseApplication
    \/ TFLInterpreterExit
    \/ TFLWorker

SpecTFL == Init /\ [][NextTFL]_vars

-----------------------------------------------------------------------------
\* The script of AI_Camera_Demo1.py (lines 59-100), which drives one
\* IMX500Camera: imx_process is camera.process and imx_procs its children.
\* Everything runs in the main thread: demo_stack holds the call in progress
\* on top of the calls it interrupted or was made from.  A call of
\* camera.stop() is a frame of its own, pushed by the statement that calls it.

\* Everything but the script and its camera.
besideDemo == <<imx_pc, guiVars, tflVars, poseVars, readerVars>>

Frame(f, pc) == [f |-> f, pc |-> pc]

Top == demo_stack[Len(demo_stack)]

\* The frame on top moves to pc.
At(pc) == [demo_stack EXCEPT ![Len(demo_stack)].pc = pc]

\* The frame on top returns.
Return == SubSeq(demo_stack, 1, Len(demo_stack) - 1)

\* The positions of __main__ inside its try statement (lines 90-98).
InTry == {"start", "spawned", "poll", "except"}

\* sys.exit(0) in signal_handler (line 64): SystemExit unwinds every call in
\* progress.  "except Exception" does not catch it; raised inside the try
\* statement it makes the finally clause call camera.stop() before the script
\* ends, raised elsewhere it ends the script.
Exit ==
    IF demo_stack[1].pc \in InTry
    THEN <<Frame("main", "end"), Frame("stop", "if")>>
    ELSE << >>

\* signal.signal(SIGINT, signal_handler) and the parsing of the arguments
\* (lines 68-79); before line 68 a SIGINT ends the script, which has no child.
DemoSignal ==
    /\ demo_stack # << >>
    /\ Top = Frame("main", "signal")
    /\ demo_stack' = At("create")
    /\ UNCHANGED <<imx_process, imx_procs, demo_sigints, besideDemo>>

\* camera = IMX500Camera(...) (lines 82-87)
DemoCreate ==
    /\ demo_stack # << >>
    /\ Top = Frame("main", "create")
    /\ demo_stack' = At("start")
    /\ UNCHANGED <<imx_process, imx_procs, demo_sigints, besideDemo>>

\* camera.start(): subprocess.Popen(cmd) creates the child (line 48), or
\* raises and the except clause of __main__ is entered (lines 97-98).
DemoPopen ==
    /\ demo_stack # << >>
    /\ Top = Frame("main", "start")
    /\ \E ok \in BOOLEAN, ign \in BOOLEAN :
          IF ok
          THEN /\ imx_procs' = Append(imx_procs, NewIMXProc(ign))
               /\ demo_stack' = At("spawned")
          ELSE /\ imx_procs' = imx_procs
               /\ demo_stack' = At("except")
    /\ UNCHANGED <<imx_process, demo_sigints, besideDemo>>

\* "self.process = " what Popen returned (line 48)
DemoAssign ==
    /\ demo_stack # << >>
    /\ Top = Frame("main", "spawned")
    /\ imx_process' = Len(imx_procs)
    /\ demo_stack' = At("poll")
    /\ UNCHANGED <<imx_procs, demo_sigints, besideDemo>>

\* "while camera.process.poll() is None" (lines 94-95) finds the child ended
DemoPollEnded ==
    /\ demo_stack # << >>
    /\ Top = Frame("main", "poll")
    /\ ~Alive(imx_procs, imx_process)
    /\ demo_stack' = At("finally")
    /\ UNCHANGED <<imx_process, imx_procs, demo_sigints, besideDemo>>

\* print(f"Error: {e}") (line 98)
DemoExcept ==
    /\ demo_stack # << >>
    /\ Top = Frame("main", "except")
    /\ demo_stack' = At("finally")
    /\ UNCHANGED <<imx_process, imx_procs, demo_sigints, besideDemo>>

\* finally: camera.stop() is called (line 100)
DemoFinally ==
    /\ demo_stack # << >>
    /\ Top = Frame("main", "finally")
    /\ demo_stack' = Append(At("end"), Frame("stop", "if"))
    /\ UNCHANGED <<imx_process, imx_procs, demo_sigints, besideDemo>>

\* camera.stop() has returned to the finally clause, and the script ends.
DemoEnd ==
    /\ demo_stack # << >>
    /\ Top = Frame("main", "end")
    /\ demo_stack' = << >>
    /\ UNCHANGED <<imx_process, imx_procs, demo_sigints, besideDemo>>

\* IMX500Camera.stop: "if self.process:" (line 52)
DemoStopIf ==
    /\ demo_stack # << >>
    /\ Top = Frame("stop", "if")
    /\ demo_stack' = IF imx_process # None THEN At("terminate") ELSE Return
    /\ UNCHANGED <<imx_process, imx_procs, demo_sigints, besideDemo>>

\* self.process.terminate() (line 54)
DemoStopTerminate ==
    /\ demo_stack # << >>
    /\ Top = Frame("stop", "terminate")
    /\ imx_procs' = Terminate(imx_procs, imx_process)
    /\ demo_stack' = At("wait")
    /\ UNCHANGED <<imx_process, demo_sigints, besideDemo>>

\* self.process.wait() returns, the child having ended (line 55).  (A wait
\* called by the handler while it interrupted a wait may never return; such a
\* run stops here.)
DemoStopWaitReturns ==
    /\ demo_stack # << >>
    /\ Top = Frame("stop", "wait")
    /\ ~Alive(imx_procs, imx_process)
    /\ demo_stack' = At("clear")
    /\ UNCHANGED <<imx_process, imx_procs, demo_sigints, besideDemo>>

\* self.process = None, and stop returns (lines 56-57)
DemoStopClear ==
    /\ demo_stack # << >>
    /\ Top = Frame("stop", "clear")
    /\ imx_process' = None
    /\ demo_stack' = Return
    /\ UNCHANGED <<imx_procs, demo_sigints, besideDemo>>

\* SIGINT is delivered once the handler is installed: signal_handler (lines
\* 59-64) interrupts whatever the main thread is doing.
DemoSigint ==
    /\ demo_stack # << >>
    /\ demo_stack[1].pc # "signal"
    /\ demo_sigints < MaxSigints
    /\ demo_sigints' = demo_sigints + 1
    /\ demo_stack' = Append(demo_stack, Frame("handler", "globals"))
    /\ UNCHANGED <<imx_process, imx_procs, besideDemo>>

\* "if 'camera' in globals(): camera.stop()" (lines 62-63)
DemoHandlerStop ==
    /\ demo_stack # << >>
    /\ Top = Frame("handler", "globals")
    /\ demo_stack' = IF demo_stack[1].pc # "create"
                     THEN Append(At("exit"), Frame("stop", "if"))
                     ELSE At("exit")
    /\ UNCHANGED <<imx_process, imx_procs, demo_sigints, besideDemo>>

\* sys.exit(0) (line 64)
DemoHandlerExit ==
    /\ demo_stack # << >>
    /\ Top = Frame("handler", "exit")
    /\ demo_stack' = Exit
    /\ UNCHANGED <<imx_process, imx_procs, demo_sigints, besideDemo>>

NextDemo ==
    \/ DemoSignal
    \/ DemoCreate
    \/ DemoPopen
    \/ DemoAssign
    \/ DemoPollEnded
    \/ DemoExcept
    \/ DemoFinally
    \/ DemoEnd
    \/ DemoStopIf
    \/ DemoStopTerminate
    \/ DemoStopWaitReturns
    \/ DemoStopClear
    \/ DemoSigint
    \/ DemoHandlerStop
    \/ DemoHandlerExit
    \/ IMXChildExits
    \/ IMXChildTerminated

SpecDemo == Init /\ [][NextDemo]_vars

-----------------------------------------------------------------------------
\* The script of camera_pose_detection.py: run_camera_with_pose_detection
\* (lines 9-53) called by main (lines 55-80).  The child is pose_procs[1].

\* Everything but this script.
besidePose == <<guiVars, imxVars, tflVars, demoVars, readerVars>>

PoseTop == pose_stack[Len(pose_stack)]

PoseAt(pc) == [pose_stack EXCEPT ![Len(pose_stack)].pc = pc]

\* The script has exited: by main returning ("return"), by sys.exit(0) in
\* the handler ("SystemExit") or by the KeyboardInterrupt that SIGINT raises
\* while Python's own handler is in place ("KeyboardInterrupt").  Neither
\* exception is an Exception, so that line 49 does not catch it.
PoseExited(how) == <<Frame("exit", how)>>

PoseRunning == PoseTop.f # "exit"

\* process = subprocess.Popen(cmd): the child is created (line 36), or Popen
\* raises and the except clause is entered (lines 49-51)
PosePopen ==
    /\ PoseTop = Frame("main", "popen")
    /\ \E ok \in BOOLEAN, ign \in BOOLEAN :
          IF ok
          THEN /\ pose_procs' = Append(pose_procs, NewIMXProc(ign))
               /\ pose_stack' = PoseAt("assign")
          ELSE /\ pose_procs' = pose_procs
               /\ pose_stack' = PoseAt("except")
    /\ UNCHANGED <<pose_handler, pose_sigints, besidePose>>

\* "process = " what Popen returned (line 36), and the def of lines 39-42
PoseAssign ==
    /\ PoseTop = Frame("main", "assign")
    /\ pose_stack' = PoseAt("signal")
    /\ UNCHANGED <<pose_procs, pose_handler, pose_sigints, besidePose>>

\* signal.signal(signal.SIGINT, signal_handler) (line 44)
PoseInstall ==
    /\ PoseTop = Frame("main", "signal")
    /\ pose_handler' = TRUE
    /\ pose_stack' = PoseAt("wait")
    /\ UNCHANGED <<pose_procs, pose_sigints, besidePose>>

\* process.wait() returns, the child having ended (line 47); the function
\* returns True and main returns
PoseWaitReturns ==
    /\ PoseTop = Frame("main", "wait")
    /\ ~Alive(pose_procs, 1)
    /\ pose_stack' = PoseExited("return")
    /\ UNCHANGED <<pose_procs, pose_handler, pose_sigints, besidePose>>

\* except Exception: print and return False (lines 49-51)
PoseExcept ==
    /\ PoseTop = Frame("main", "except")
    /\ pose_stack' = PoseExited("return")
    /\ UNCHANGED <<pose_procs, pose_handler, pose_sigints, besidePose>>

\* SIGINT is delivered: signal_handler is called if it has been installed,
\* KeyboardInterrupt is raised in the main thread if not.
PoseSigint ==
    /\ PoseRunning
    /\ pose_sigints < MaxSigints
    /\ pose_sigints' = pose_sigints + 1
    /\ pose_stack' = IF pose_handler
                     THEN Append(pose_stack, Frame("handler", "print"))
                     ELSE PoseExited("KeyboardInterrupt")
    /\ UNCHANGED <<pose_procs, pose_handler, besidePose>>

\* print("\nStopping camera...") (line 40)
PoseHandlerPrint ==
    /\ PoseTop = Frame("handler", "print")
    /\ pose_stack' = PoseAt("terminate")
    /\ UNCHANGED <<pose_procs, pose_handler, pose_sigints, besidePose>>

\* process.terminate() (line 41)
PoseHandlerTerminate ==
    /\ PoseTop = Frame("handler", "terminate")
    /\ pose_procs' = Terminate(pose_procs, 1)
    /\ pose_stack' = PoseAt("exit")
    /\ UNCHANGED <<pose_handler, pose_sigints, besidePose>>

\* sys.exit(0) (line 42)
PoseHandlerExit ==
    /\ PoseTop = Frame("handler", "exit")
    /\ pose_stack' = PoseExited("SystemExit")
    /\ UNCHANGED <<pose_procs, pose_handler, pose_sigints, besidePose>>

\* The rpicam-hello child ends by itself (its -t duration is over, or it
\* fails).
PoseChildExits ==
    /\ \E p \in 1..Len(pose_procs), c \in ExitCodes :
          /\ Alive(pose_procs, p)
          /\ pose_procs' = Ended(pose_procs, p, c)
    /\ UNCHANGED <<pose_stack, pose_handler, pose_sigints, besidePose>>

\* The child dies of the SIGTERM it was sent, unless it ignores the signal.
PoseChildTerminated ==
    /\ \E p \in 1..Len(pose_procs) :
          /\ Alive(pose_procs, p)
          /\ pose_procs[p].term
          /\ ~pose_procs[p].ign
          /\ pose_procs' = Ended(pose_procs, p, "-15")
    /\ UNCHANGED <<pose_stack, pose_handler, pose_sigints, besidePose>>

NextPose ==
    \/ PosePopen
    \/ PoseAssign
    \/ PoseInstall
    \/ PoseWaitReturns
    \/ PoseExcept
    \/ PoseSigint
    \/ PoseHandlerPrint
    \/ PoseHandlerTerminate
    \/ PoseHandlerExit
    \/ PoseChildExits
    \/ PoseChildTerminated

SpecPose == Init /\ [][NextPose]_vars

-----------------------------------------------------------------------------
\* QRCodeReaderGUI of QRReader.py: the capture thread (_capture_frames,
\* _process_current_frame), the callbacks it queues, the Open URL button and
\* on_close.  A string is the sequence of its characters.

\* Everything but the QR reader.
besideReader == <<guiVars, imxVars, tflVars, demoVars, poseVars, reader_rec>>

\* self.cooldown_period (QRReader.py:60)
cooldown_period == 5

Http == <<"h", "t", "t", "p", ":", "/", "/">>
Https == <<"h", "t", "t", "p", "s", ":", "/", "/">>

\* str.startswith
StartsWith(s, prefix) ==
    /\ Len(s) >= Len(prefix)
    /\ SubSeq(s, 1, Len(prefix)) = prefix

\* A test of the scheme's letters alone.
IsURLLoose(data) == StartsWith(data, <<"h", "t", "t", "p">>)

\* data.startswith(('http://', 'https://')) (QRReader.py:199, 122)
IsURL(data) == StartsWith(data, Http) \/ StartsWith(data, Https)

\* What a QR code may hold: two URLs, a text that begins like one, another.
Payloads ==
    {Http \o <<"a">>, Https \o <<"b">>, <<"h", "t", "t", "p">>, <<"x">>}

\* What decode(frame) may return: the payloads of the codes in the frame.
Frames == UNION {[1..n -> Payloads] : n \in 0..MaxCodes}

ReaderAt(pc, codes) == reader_thread' = [pc |-> pc, codes |-> codes]

\* force_open_url(url) (QRReader.py:20-50): url is put on the command line
\* of the first browser that starts.  auto: the call is the one of
\* _process_current_frame.
force_open_url(url, auto) ==
    /\ handed' = url
    /\ opened' = IF reader_rec /\ auto
                 THEN Append(opened, [url |-> url, time |-> reader_now])
                 ELSE opened

\* start() (QRReader.py:128-144)
ReaderStart ==
    /\ reader_ui = "init"
    /\ status_var' = <<"Starting camera...">>
    /\ running' = TRUE
    /\ ReaderAt("test", << >>)
    /\ reader_ui' = "mainloop"
    /\ UNCHANGED <<last_url, last_detection_time, url_var, open_button,
                   reader_after, reader_now, handed, opened, besideReader>>

\* "while self.running:" and, when it is set, subprocess.run of
\* libcamera-still is called (QRReader.py:149-163)
ReaderTest ==
    /\ reader_thread.pc = "test"
    /\ ReaderAt(IF running THEN "run" ELSE "done", << >>)
    /\ UNCHANGED <<running, last_url, last_detection_time, status_var, url_var,
                   open_button, reader_after, reader_ui, reader_now, handed,
                   opened, besideReader>>

\* subprocess.run returns, or raises CalledProcessError (QRReader.py:163,
\* 171-173)
ReaderCaptureReturns ==
    /\ reader_thread.pc = "run"
    /\ \E ok \in BOOLEAN :
          IF ok
          THEN ReaderAt("process", << >>) /\ status_var' = status_var
          ELSE /\ ReaderAt("sleep", << >>)
               /\ status_var' = <<"Error capturing image: ">>
    /\ UNCHANGED <<running, last_url, last_detection_time, url_var,
                   open_button, reader_after, reader_ui, reader_now, handed,
                   opened, besideReader>>

\* _process_current_frame up to decode (QRReader.py:182-189): the file is
\* there unless the directory has been cleaned up, and cv2.imread may fail.
ReaderProcess ==
    /\ reader_thread.pc = "process"
    /\ \E read \in BOOLEAN :
          ReaderAt(IF reader_ui # "cleaned" /\ read THEN "decode" ELSE "sleep",
                   << >>)
    /\ UNCHANGED <<running, last_url, last_detection_time, status_var, url_var,
                   open_button, reader_after, reader_ui, reader_now, handed,
                   opened, besideReader>>

\* qr_codes = decode(frame) (QRReader.py:192)
ReaderDecode ==
    /\ reader_thread.pc = "decode"
    /\ \E frame \in Frames : ReaderAt("codes", frame)
    /\ UNCHANGED <<running, last_url, last_detection_time, status_var, url_var,
                   open_button, reader_after, reader_ui, reader_now, handed,
                   opened, besideReader>>

\* The branch of a URL (QRReader.py:200-215)
detect_url(data) ==
    IF data # last_url \/ (reader_now - last_detection_time) > cooldown_period
    THEN /\ Len(reader_after) < MaxAfter
         /\ reader_rec => Len(opened) < MaxOpened
         /\ status_var' = <<"QR Code detected! Opening: ">> \o data
         /\ url_var' = data
         /\ last_url' = data
         /\ last_detection_time' = reader_now
         /\ reader_after' = Append(reader_after, "normal")
         /\ force_open_url(data, TRUE)
    ELSE UNCHANGED <<status_var, url_var, last_url, last_detection_time,
                     reader_after, handed, opened>>

\* The branch of other data, which leaves the button as it is.
detect_other_keeping(data) ==
    /\ status_var' = <<"Detected QR code with non-URL data: ">> \o data
    /\ url_var' = <<"Non-URL data: ">> \o data
    /\ UNCHANGED <<last_url, last_detection_time, reader_after, handed, opened>>

\* The branch of other data (QRReader.py:216-221)
detect_other(data) ==
    /\ Len(reader_after) < MaxAfter
    /\ status_var' = <<"Detected QR code with non-URL data: ">> \o data
    /\ url_var' = <<"Non-URL data: ">> \o data
    /\ reader_after' = Append(reader_after, "disabled")
    /\ UNCHANGED <<last_url, last_detection_time, handed, opened>>

\* One turn of "for qr in qr_codes:" (QRReader.py:194-221), or its end; a
\* payload that is not UTF-8 makes decode('utf-8') raise and the except
\* clause end the function (lines 223-224).
ReaderCode ==
    /\ reader_thread.pc = "codes"
    /\ IF reader_thread.codes = << >>
       THEN /\ ReaderAt("sleep", << >>)
            /\ UNCHANGED <<status_var, url_var, last_url, last_detection_time,
                           reader_after, handed, opened>>
       ELSE LET data == Head(reader_thread.codes) IN
            \/ /\ IF IsURL(data) THEN detect_url(data) ELSE detect_other(data)
               /\ ReaderAt("codes", Tail(reader_thread.codes))
            \/ /\ status_var' = <<"Error processing frame: ">>
               /\ ReaderAt("sleep", << >>)
               /\ UNCHANGED <<url_var, last_url, last_detection_time,
                              reader_after, handed, opened>>
    /\ UNCHANGED <<running, open_button, reader_ui, reader_now, besideReader>>

\* time.sleep(...) returns (QRReader.py:169, 173)
ReaderSleepReturns ==
    /\ reader_thread.pc = "sleep"
    /\ ReaderAt("test", << >>)
    /\ UNCHANGED <<running, last_url, last_detection_time, status_var, url_var,
                   open_button, reader_after, reader_ui, reader_now, handed,
                   opened, besideReader>>

\* A second passes, while the capture thread is in the capture command or
\* asleep.
ReaderTick ==
    /\ reader_thread.pc \in {"run", "sleep"}
    /\ reader_now < MaxTime
    /\ reader_now' = reader_now + 1
    /\ UNCHANGED <<running, last_url, last_detection_time, status_var, url_var,
                   open_button, reader_after, reader_thread, reader_ui, handed,
                   opened, besideReader>>

\* The event loop runs the oldest of the queued callbacks:
\* self.open_button.config(state=...) (QRReader.py:212, 221)
ReaderRunCallback ==
    /\ reader_ui = "mainloop"
    /\ reader_after # << >>
    /\ open_button' = Head(reader_after)
    /\ reader_after' = Tail(reader_after)
    /\ UNCHANGED <<running, last_url, last_detection_time, status_var, url_var,
                   reader_thread, reader_ui, reader_now, handed, opened,
                   besideReader>>

\* _open_current_url (QRReader.py:120-126), the command of the Open URL
\* button
ReaderOpenCurrentUrl ==
    /\ reader_ui = "mainloop"
    /\ IF last_url # PyNone /\ last_url # << >> /\ IsURL(last_url)
       THEN /\ status_var' = <<"Opening URL: ">> \o last_url
            /\ force_open_url(last_url, FALSE)
       ELSE /\ status_var' = <<"No valid URL to open">>
            /\ UNCHANGED <<handed, opened>>
    /\ UNCHANGED <<running, last_url, last_detection_time, url_var,
                   open_button, reader_after, reader_thread, reader_ui,
                   reader_now, besideReader>>

\* on_close (QRReader.py:254-264) up to its sleep: self.running = False
ReaderCloseBegin ==
    /\ reader_ui \in {"init", "mainloop"}
    /\ running' = FALSE
    /\ reader_ui' = "closing"
    /\ UNCHANGED <<last_url, last_detection_time, status_var, url_var,
                   open_button, reader_after, reader_thread, reader_now,
                   handed, opened, besideReader>>

\* time.sleep(0.5) returns and self.temp_dir.cleanup() is called (lines
\* 257-261).  In half a second a capture thread that was about to test
\* self.running has done so; one that is in the capture command, at work on
\* a frame or asleep may still be there.
ReaderCloseCleanup ==
    /\ reader_ui = "closing"
    /\ reader_thread.pc # "test"
    /\ reader_ui' = "cleaned"
    /\ UNCHANGED <<running, last_url, last_detection_time, status_var, url_var,
                   open_button, reader_after, reader_thread, reader_now,
                   handed, opened, besideReader>>

\* self.root.destroy() and sys.exit(0) (lines 263-264): the interpreter
\* exits, and the capture thread, a daemon, with it.
ReaderCloseExit ==
    /\ reader_ui = "cleaned"
    /\ reader_ui' = "exited"
    /\ ReaderAt("none", << >>)
    /\ UNCHANGED <<running, last_url, last_detection_time, status_var, url_var,
                   open_button, reader_after, reader_now, handed, opened,
                   besideReader>>

NextReader ==
    \/ ReaderStart
    \/ ReaderTest
    \/ ReaderCaptureReturns
    \/ ReaderProcess
    \/ ReaderDecode
    \/ ReaderCode
    \/ ReaderSleepReturns
    \/ ReaderTick
    \/ ReaderRunCallback
    \/ ReaderOpenCurrentUrl
    \/ ReaderCloseBegin
    \/ ReaderCloseCleanup
    \/ ReaderCloseExit

\* The QR reader under every use.
SpecReader == Init /\ [][NextReader]_vars

\* The QR reader scanning, left open and its button left alone, with the
\* automatic openings recorded.
InitReaderLog ==
    /\ InitGUI
    /\ InitIMX
    /\ InitTFL
    /\ InitDemo
    /\ InitPose
    /\ InitReader
    /\ reader_rec = TRUE
    /\ cap = MaxProcs
    /\ Silent

NextReaderLog ==
    \/ ReaderStart
    \/ ReaderTest
    \/ ReaderCaptureReturns
    \/ ReaderProcess
    \/ ReaderDecode
    \/ ReaderCode
    \/ ReaderSleepReturns
    \/ ReaderTick
    \/ ReaderRunCallback

SpecReaderLog == InitReaderLog /\ [][NextReaderLog]_vars

-----------------------------------------------------------------------------
\* The claims.

Children(slot) == {p \in 1..Len(procs) : procs[p].slot = slot}
Live(slot) == {p \in Children(slot) : Alive(procs, p)}

\* The child p is the one its slot's handle refers to.
Current(p) ==
    \/ procs[p].slot = "camera" /\ process = p /\ camera_running
    \/ procs[p].slot = "qr" /\ qr_reader_process = p
    \/ procs[p].slot = "model" /\ model_ai_process = p

\* C1: each task slot has at most one child process that was launched for it
\* and is still alive.
C1_OneLiveChildPerSlot ==
    \A slot \in Slots : Cardinality(Live(slot)) <= 1

\* C2: a start on a slot that is not Idle spawns no second process: no step
\* taken while a slot holds a process (for the GUI's camera: while
\* camera_running) adds a child, or a worker thread, for that slot.
C2_SecondStartRejected ==
    [][ /\ imx_process # None => Len(imx_procs') = Len(imx_procs)
        /\ camera_running => started' = started
        /\ \A slot \in {"qr", "model"} :
              HandleOf(slot) # None =>
                 \A p \in 1..Len(procs') : procs'[p].slot = slot => p <= Len(procs)
      ]_vars

\* C3: whenever no handler is executing, at most one of camera_running,
\* qr_reader_process is not None and model_ai_process is not None is true.
C3_SingleActiveTask ==
    ui = << >> =>
       Cardinality({slot \in Slots :
                       IF slot = "camera" THEN camera_running
                       ELSE HandleOf(slot) # None}) <= 1

\* C4: in the step in which a start launches task B (spawns the QR Reader or
\* Model AI child, or starts the camera worker), the child of every other
\* task that was running has ended, not merely been sent SIGTERM.
C4_OtherTaskExitedBeforeSpawn ==
    [][ LET spawned == Len(procs') > Len(procs) /\ procs'[Len(procs')].slot # "camera"
            worker  == started' > started
            slotB   == IF worker THEN "camera" ELSE procs'[Len(procs')].slot
        IN (spawned \/ worker) =>
              \A p \in 1..Len(procs) :
                 Current(p) /\ procs[p].slot # slotB => ~Alive(procs', p)
      ]_vars

\* C5: whenever stop is invoked on a slot that is not Idle, the slot is Idle
\* with its handle released when stop returns; for the camera this covers
\* camera_running with the worker's child not spawned yet.
C5_StopLeavesSlotIdle ==
    UIIdle =>
       /\ camera_running =>
             LET s == stop_camera(State) IN s.process = None /\ ~s.camera_running
       /\ qr_reader_process # None =>
             LET s == stop_qr_reader_end(stop_qr_reader_begin(State))
             IN s.qr_reader_process = None
       /\ model_ai_process # None =>
             LET s == stop_model_ai_end(stop_model_ai_begin(State))
             IN s.model_ai_process = None

\* A stop releases the handle of child p in this step (a queued callback that
\* does so takes itself off `after`).
StopReleases(p) ==
    /\ after' = after
    /\ Current(p)
    /\ CASE procs[p].slot = "camera" -> process' = None
         [] procs[p].slot = "qr" -> qr_reader_process' = None
         [] procs[p].slot = "model" -> model_ai_process' = None

\* C6: after stop on a running task has returned, that task's child is no
\* longer alive, for the Model AI, QR Reader and camera slots alike.
C6_StopLeavesNoLiveChild ==
    [][ \A p \in 1..Len(procs) : StopReleases(p) => ~Alive(procs', p) ]_vars

\* C7: every stop operation returns after a bounded wait even if the child
\* never reacts to SIGTERM: a stop that is waiting on its child can return by
\* a timeout, unless the child has ended or is about to die of the signal.
C7_StopWaitIsBounded ==
    /\ ui # << >> /\ ~closed => ENABLED WaitReturns
    /\ imx_pc = "wait" =>
          \/ ENABLED IMXWaitReturns
          \/ imx_procs[imx_process].term /\ ~imx_procs[imx_process].ign

\* C8: no two spawns for one task without a completed stop or an observed
\* exit of the earlier child in between: a slot never has two live children
\* neither of which a stop has signalled.
C8_NoDoubleStart ==
    \A slot \in Slots :
       Cardinality({p \in Live(slot) : ~procs[p].term}) <= 1

\* C9: when a slot holds a process, no drain thread started for an earlier
\* process of the slot is still running, and a drain thread reads only the
\* child it was started for.
C9_OneDrainPerChild ==
    \A d \in drains :
       /\ HandleOf(d.slot) # None => d.own = HandleOf(d.slot)
       /\ d.pc = "read" => d.target = d.own

\* C10: when close_application has run, every child launched by the GUI has
\* been terminated (it has ended or been sent SIGTERM), whenever it was
\* spawned.
C10_CloseLeavesNoChild ==
    closed => \A p \in 1..Len(procs) : ~Alive(procs, p) \/ procs[p].term

\* The callback queued for a slot runs in this step on the slot's child p.
CallbackRunsOn(p) ==
    /\ Current(p)
    /\ after'[procs[p].slot] < after[procs[p].slot]

\* The status texts that name exit code c.
ExitTexts(c) ==
    {"Status: Model AI Vision Exited (code: " \o c \o ")",
     "Status: QR Reader Exited (code: " \o c \o ")"}

\* C11: when the exit of a running task's child with code 0 is handled, the
\* slot becomes Idle and an exit notification carrying code 0 is given (in
\* the status text or in what is printed), for the camera as for the others.
C11_CleanExitNotified ==
    [][ \A p \in 1..Len(procs) :
           CallbackRunsOn(p) /\ procs[p].code = "0" =>
              /\ HandleOf(procs[p].slot)' = None
              /\ \/ status_label' \in ExitTexts("0")
                 \/ /\ Len(out') > Len(out)
                    /\ out'[Len(out')].kind = "exit"
                    /\ out'[Len(out')].n = "0"
      ]_vars

\* What the user is shown.
Shown(st) ==
    <<st.start_button, st.qr_button, st.model_ai_button, st.status_label, st.out>>

\* C12: the exit of a running task's child with a nonzero code is told apart
\* from a clean exit: what the callback leaves on display differs from what
\* it would have left had the child ended with code 0.
C12_FailureDistinguished ==
    [][ \A p \in 1..Len(procs) :
           CallbackRunsOn(p) /\ procs[p].code \in {"1", NoSuchFile} =>
              Shown(State)' #
                 Shown(Callback(procs[p].slot,
                                [State EXCEPT !.procs = Ended(procs, p, "0")]))
      ]_vars

\* Where `out` holds the lines of child p, and its exit notifications.
LineIdx(p) == {i \in 1..Len(out) : out[i].kind = "line" /\ out[i].p = p}
ExitIdx(p) == {i \in 1..Len(out) : out[i].kind = "exit" /\ out[i].p = p}

\* A QR Reader or Model AI child that has run until its own exit, with no
\* stop called on it and its output read without error.
OwnExit(p) ==
    /\ procs[p].slot # "camera"
    /\ procs[p].code \in ExitCodes \cup {NoSuchFile}
    /\ ~procs[p].sig
    /\ ~procs[p].err

\* Some drain thread is reading child p or is about to.
CanStillRead(p) ==
    \E d \in drains :
       /\ d.slot = procs[p].slot
       /\ \/ d.pc = "read" /\ d.target = p
          \/ d.pc = "loop" /\ HandleOf(d.slot) = p

\* C13: for a QR Reader or Model AI child that ran until its own exit, the
\* lines forwarded are its lines 1, 2, ... in that order, each once and under
\* its task's name; all the lines it wrote have been forwarded once no drain
\* thread reads it any more, and before any exit notification of its run.
C13_LinesForwardedInOrder ==
    \A p \in 1..Len(procs) :
       OwnExit(p) =>
          /\ \A i \in LineIdx(p) :
                /\ out[i].n = Cardinality({j \in LineIdx(p) : j <= i})
                /\ out[i].slot = procs[p].slot
          /\ ~CanStillRead(p) => Cardinality(LineIdx(p)) = procs[p].w
          /\ \A e \in ExitIdx(p) :
                Cardinality({j \in LineIdx(p) : j < e}) = procs[p].w

\* A stop called on child p has returned: it has released the handle.
StopReturned(p) ==
    /\ procs[p].sig
    /\ HandleOf(procs[p].slot) # p

\* C14: once stop on a task has returned, no further line of the child it
\* stopped is forwarded.
C14_NoLineAfterStop ==
    [][ \A p \in 1..Len(procs) :
           StopReturned(p) => LineIdx(p)' = LineIdx(p) ]_vars

\* C15: with no file at qr_reader_path every start of the QR Reader fails in
\* start itself: whenever no handler is executing, the slot holds no handle
\* and its button shows the idle label.
C15_MissingScriptFailsStart ==
    ~qr_script /\ ui = << >> =>
       /\ qr_reader_process = None
       /\ qr_button = "QR Reader"

\* The run of the child p has failed: it has ended by itself with a nonzero
\* code, or a read of its output has raised.
RunFailed(p) ==
    \/ procs[p].code \in {"1", NoSuchFile}
    \/ procs[p].err

\* C16: a slot whose run has failed returns to Idle without the user: while
\* it still holds the handle and no handler is executing, a thread of the
\* slot is running or an exit callback is queued for it.
C16_FailedSlotIsReset ==
    \A p \in 1..Len(procs) :
       Current(p) /\ RunFailed(p) /\ UIIdle =>
          \/ after[procs[p].slot] > 0
          \/ \E d \in drains : d.slot = procs[p].slot
          \/ \E w \in workers : procs[p].slot = "camera"

\* C17: every output line and every exit notification of the QR Reader and
\* Model AI tasks is written to the console widget.
C17_OutputGoesToConsole ==
    \A i \in 1..Len(out) :
       out[i].kind \in {"line", "exit"} => out[i].to = "console"

\* C18: stop on an Idle slot is a no-op: stop_model_ai and stop_qr_reader on
\* a None handle and stop_camera with camera_running False leave every field,
\* widget text and process as they were, and IMX500Camera.stop with process
\* None changes nothing.
C18_StopOnIdleIsNoOp ==
    /\ UIIdle =>
          \A ok \in BOOLEAN :
             /\ model_ai_process = None => Run(State, stop_model_ai, ok) = State
             /\ qr_reader_process = None => Run(State, stop_qr_reader, ok) = State
             /\ ~camera_running => Run(State, <<"stop_camera">>, ok) = State
    /\ imx_process = None /\ imx_pc = "idle" =>
          ~ENABLED (IMXStop /\ ~UNCHANGED vars)

\* The three GUI slots are Idle by their flags while a camera child, spawned
\* by a worker after the stop, is alive.
C18_Witness ==
    /\ UIIdle
    /\ ~camera_running
    /\ model_ai_process = None
    /\ qr_reader_process = None
    /\ process # None
    /\ Alive(procs, process)

\* The lifecycle state of a slot, read off the fields: the QR Reader and
\* Model AI slots are Stopping while their stop is in wait(); the camera slot
\* is Starting until its worker has spawned the child.
Phase(slot) ==
    IF slot = "camera"
    THEN IF ~camera_running THEN "Idle"
         ELSE IF process = None THEN "Starting" ELSE "Running"
    ELSE IF HandleOf(slot) = None THEN "Idle"
         ELSE IF ui # << >> /\ Head(ui) = (IF slot = "qr" THEN "wait_qr_reader"
                                                         ELSE "wait_model_ai")
              THEN "Stopping" ELSE "Running"

\* What one step may do to a slot: an edge of the lifecycle, or two of them
\* made within one handler or callback (Idle to Running through Starting,
\* Running or Starting to Idle through Failed or Stopping).
Edges ==
    {<<"Idle", "Starting">>, <<"Idle", "Running">>, <<"Starting", "Running">>,
     <<"Running", "Stopping">>, <<"Stopping", "Idle">>, <<"Running", "Idle">>,
     <<"Starting", "Idle">>}

\* The run the slot is in has ended: its child has, or, for the camera while
\* Starting, the worker started for it did not get to spawn one.
RunEnded(slot) ==
    IF HandleOf(slot) # None THEN ~Alive(procs, HandleOf(slot))
    ELSE \A w \in workers : w.id = started => w.pc \notin {"start", "popen"}

\* C19: a slot's lifecycle state changes only along the edges of the
\* lifecycle, and a callback takes a slot that is Starting or Running to Idle
\* only when the run it is in has ended.
C19_LifecycleEdges ==
    [][ \A slot \in Slots :
           /\ Phase(slot)' # Phase(slot) => <<Phase(slot), Phase(slot)'>> \in Edges
           /\ /\ Phase(slot) \in {"Starting", "Running"}
              /\ Phase(slot)' = "Idle"
              /\ after'[slot] < after[slot]
              => RunEnded(slot)
      ]_vars

\* C20: an exit callback resets the slot only for the process whose exit
\* scheduled it: a child that is alive when the callback runs, which cannot
\* be that process, keeps its handle and its running flag.
C20_CallbackSparesLaterProcess ==
    [][ \A p \in 1..Len(procs) :
           CallbackRunsOn(p) /\ Alive(procs, p) =>
              /\ HandleOf(procs[p].slot)' = p
              /\ procs[p].slot = "camera" => camera_running'
      ]_vars

\* The handler a click on the slot's button runs, and the stop it may call.
Toggle(slot) ==
    CASE slot = "model" -> toggle_model_ai
      [] slot = "qr" -> toggle_qr_reader
      [] slot = "camera" -> toggle_camera

Stop(slot) ==
    CASE slot = "model" -> stop_model_ai
      [] slot = "qr" -> stop_qr_reader
      [] slot = "camera" -> <<"stop_camera">>

\* An exit callback is queued for the slot and has not run, and the slot's
\* handle refers to a process that has exited.
StaleWindow(slot) ==
    /\ after[slot] > 0
    /\ HandleOf(slot) # None
    /\ ~Alive(procs, HandleOf(slot))

\* C21: a drain thread that schedules the exit callback leaves the slot's
\* handle referring to the exited process until the callback runs, and a
\* toggle arriving in that window (for the camera: with camera_running set)
\* acts on the stale handle: it takes the stop branch, which starts nothing
\* and changes no child.
C21_ToggleActsOnStaleHandle ==
    [][ /\ \A slot \in {"qr", "model"} :
              after'[slot] > after[slot] => StaleWindow(slot)'
        /\ \A slot \in Slots :
              /\ StaleWindow(slot)
              /\ UIIdle
              /\ slot = "camera" => camera_running
              => /\ Toggle(slot) = Stop(slot)
                 /\ \A ok \in BOOLEAN :
                       LET s == Run(State, Toggle(slot), ok) IN
                       /\ Len(s.procs) = Len(procs)
                       /\ s.started = started
                       /\ \A p \in 1..Len(procs) :
                             /\ s.procs[p].code = procs[p].code
                             /\ s.procs[p].term = procs[p].term
      ]_vars

\* The Model AI child has exited, its drain thread has queued
\* _model_ai_stopped, and model_ai_process still refers to it while the event
\* thread is free to take a click.
C21_Witness ==
    /\ StaleWindow("model")
    /\ UIIdle
    /\ \A d \in drains : d.slot # "model"

\* The child most recently spawned for the slot: the run the slot is in, or
\* was in last.
Latest(slot) ==
    CHOOSE p \in Children(slot) : \A q \in Children(slot) : q <= p

\* Nothing is left that could still run the exit callback of the slot.
Settled(slot) ==
    /\ ui = << >>
    /\ after[slot] = 0
    /\ \A d \in drains : d.slot # slot

\* C22: for each run of a QR Reader or Model AI child that ended by the
\* child's own exit, no stop having been called on it, the exit callback runs
\* exactly once: when it runs it has not run for that child before and it
\* reports that child and its exit code, never None, and it has run once
\* nothing is left that could run it.
C22_ExitReportedOnce ==
    [][ \A slot \in {"qr", "model"} :
           Children(slot) # {} /\ OwnExit(Latest(slot)) =>
              LET p == Latest(slot) IN
              /\ after'[slot] < after[slot] =>
                    /\ ExitIdx(p) = {}
                    /\ Len(out') = Len(out) + 1
                    /\ out'[Len(out')].kind = "exit"
                    /\ out'[Len(out')].p = p
                    /\ out'[Len(out')].n = procs[p].code
              /\ Settled(slot) => Cardinality(ExitIdx(p)) = 1
      ]_vars

\* The worker threads of the TFLite GUI that are inside the capture loop,
\* with the camera open.
InLoop == {w \in tfl_workers : w.pc \in {"test", "loop"}}

\* C23: in the TFLite GUI at most one worker thread is executing the capture
\* loop at any time: no worker is in the body of the loop while a worker
\* started before it is still in the loop with the camera unreleased.
C23_OneWorkerInLoop ==
    \A w \in tfl_workers :
       w.pc = "loop" => \A v \in InLoop : v.id >= w.id

\* C24: when the AI_Camera_Demo1 script has exited, on whatever path, every
\* camera child it spawned has ended (it was terminated and waited for) and
\* camera.process is None, so that a further stop would do nothing.
C24_ExitLeavesNoChild ==
    demo_stack = << >> =>
       /\ \A p \in 1..Len(imx_procs) : ~Alive(imx_procs, p)
       /\ imx_process = None

\* C25: when camera_pose_detection.py has exited because of a SIGINT that
\* was delivered after the child was spawned, the child has been sent a
\* termination request (or had ended by then).
C25_SigintTerminatesChild ==
    /\ ~PoseRunning
    /\ PoseTop.pc \in {"SystemExit", "KeyboardInterrupt"}
    /\ pose_procs # << >>
    => pose_procs[1].term \/ ~Alive(pose_procs, 1)

\* C26: while a camera worker thread is inside its body, past the statement
\* that redirects sys.stdout and before the one that restores it, sys.stdout
\* is the console redirect; in AIvisionGUI.py (and modelAIvisionProgram.py,
\* the same text) and in AIvisionProgram.py.
C26_StdoutRedirectedWhileWorking ==
    /\ (\E w \in workers : w.pc # "start") => stdout = "console"
    /\ (\E w \in tfl_workers : w.pc # "start") => tfl_stdout = "console"

\* C27: two automatic openings of the same URL by _process_current_frame are
\* more than cooldown_period seconds apart.
C27_SameUrlOpenedAfterCooldown ==
    \A i, j \in 1..Len(opened) :
       i < j /\ opened[i].url = opened[j].url =>
          opened[j].time - opened[i].time > cooldown_period

\* C28: once on_close has cleaned up the temporary directory the capture
\* thread launches no capture command and processes no frame: it neither
\* decodes a frame nor handles a decoded payload.
C28_NoCaptureAfterCleanup ==
    [][ reader_ui = "cleaned" =>
           /\ ~(reader_thread.pc # "run" /\ reader_thread'.pc = "run")
           /\ ~(reader_thread.pc = "decode" /\ reader_thread' # reader_thread)
           /\ ~(/\ reader_thread.pc = "codes"
                /\ reader_thread.codes # << >>
                /\ reader_thread' # reader_thread)
      ]_vars

\* C29: every URL handed to force_open_url, by _process_current_frame or by
\* the Open URL button, starts with http:// or https://.
C29_OnlyHttpUrlsOpened ==
    handed # PyNone => StartsWith(handed, Http) \/ StartsWith(handed, Https)

\* The Open URL button has handed over last_url while url_var shows the
\* non-URL payload of a later detection.
C29_Witness ==
    /\ handed # PyNone
    /\ status_var = <<"Opening URL: ">> \o handed
    /\ url_var = <<"Non-URL data: ", "h", "t", "t", "p">>

\* C30: once every queued callback has run, the Open URL button is enabled
\* exactly when url_var shows last_url and last_url starts with http:// or
\* https://; so it is disabled at the start, and while url_var shows the
\* non-URL data of the latest detection.
C30_ButtonMatchesUrl ==
    reader_after = << >> =>
       (open_button = "normal" <=>
           /\ url_var = last_url
           /\ StartsWith(last_url, Http) \/ StartsWith(last_url, Https))

\* A URL has been detected and its callback has enabled the button, then a
\* non-URL payload has been detected and its callback has disabled it.
C30_Witness ==
    /\ reader_after = << >>
    /\ open_button = "disabled"
    /\ last_url # PyNone
    /\ url_var = <<"Non-URL data: ", "x">>

\* C31: whenever no UI callback is executing, each button label matches its
\* slot: the camera button reads 'Stop AI Vision' exactly when camera_running,
\* the Model AI button 'Stop Model AI' exactly when model_ai_process is not
\* None, the QR button 'Stop QR Reader' exactly when qr_reader_process is not
\* None.
C31_LabelsMatchSlots ==
    ui = << >> =>
       /\ start_button = "Stop AI Vision" <=> camera_running
       /\ model_ai_button = "Stop Model AI" <=> model_ai_process # None
       /\ qr_button = "Stop QR Reader" <=> qr_reader_process # None

\* Model AI has been started while the QR Reader ran: the handler has stopped
\* the QR Reader (killed after the wait timed out), whose button is back to
\* 'QR Reader', and has returned with the Model AI button reading
\* 'Stop Model AI'.
C31_Witness ==
    /\ ui = << >>
    /\ ~closed
    /\ model_ai_process # None
    /\ model_ai_button = "Stop Model AI"
    /\ qr_reader_process = None
    /\ qr_button = "QR Reader"
    /\ status_label = "Status: Model AI Vision Running"
    /\ \E p \in 1..Len(procs) : procs[p].slot = "qr" /\ procs[p].code = "-9"

====
